---- MODULE Spec2Model ----
(***************************************************************************)
(* Nelder-Mead optimizer of package nelmead (src/README.md, lines 93-270). *)
(*                                                                         *)
(* float64 values are modelled as exact rationals <<num, den>> in lowest   *)
(* terms (den > 0).  Every input of the model is an integer and the        *)
(* coefficients are 1, 2 and 1/2, so on the runs of Spec and SpecCfg every *)
(* value is a small dyadic number, which float64 represents exactly; the   *)
(* centroids of SpecCentroid in dimension 3 are thirds, kept exact here.   *)
(* Go slices are functions over 0 .. len-1, so indices read as in the      *)
(* source.                                                                 *)
(***************************************************************************)
EXTENDS Integers, FiniteSets, Sequences, TLC

\* ------------------------------------------------------------ bounds
\* largest max_iter passed to Optimize
MaxIter == 3
\* number of Optimize calls made on one optimizer instance
MaxCalls == 2

\* ------------------------------------------------------------ float64 arithmetic
Abs(n) == IF n < 0 THEN -n ELSE n

RECURSIVE GCD(_, _)
GCD(a, b) == IF b = 0 THEN a ELSE GCD(b, a % b)

\* the rational n/d (d > 0) in lowest terms
Norm(n, d) ==
    LET g == GCD(Abs(n), d)
    IN  IF g = 0 THEN <<0, 1>> ELSE <<n \div g, d \div g>>

Rat(n) == <<n, 1>>
Zero == Rat(0)

LCM(a, b) == (a \div GCD(a, b)) * b

RAdd(a, b) ==
    LET l == LCM(a[2], b[2])
    IN  Norm(a[1] * (l \div a[2]) + b[1] * (l \div b[2]), l)

RNeg(a) == <<-a[1], a[2]>>

RSub(a, b) == RAdd(a, RNeg(b))

RMul(a, b) ==
    LET g1 == GCD(Abs(a[1]), b[2])
        g2 == GCD(Abs(b[1]), a[2])
        h1 == IF g1 = 0 THEN 1 ELSE g1
        h2 == IF g2 = 0 THEN 1 ELSE g2
    IN  Norm((a[1] \div h1) * (b[1] \div h2), (a[2] \div h2) * (b[2] \div h1))

\* a / float64(n), n > 0
RDivInt(a, n) ==
    LET g == GCD(Abs(a[1]), n)
        h == IF g = 0 THEN 1 ELSE g
    IN  Norm(a[1] \div h, a[2] * (n \div h))

RLt(a, b) ==
    LET l == LCM(a[2], b[2])
    IN  a[1] * (l \div a[2]) < b[1] * (l \div b[2])

RLe(a, b) == ~RLt(b, a)

RAbs(a) == <<Abs(a[1]), a[2]>>

\* length of a slice modelled as a function over 0 .. n-1
Length(s) == Cardinality(DOMAIN s)

\* sum of g[i] for i = lo .. hi, accumulated in index order
RECURSIVE RSum(_, _, _)
RSum(g, lo, hi) == IF hi < lo THEN Zero ELSE RAdd(RSum(g, lo, hi - 1), g[hi])

\* ------------------------------------------------------------ objective functions
\* The objective is supplied by the caller; these are the ones the model
\* draws from, each a deterministic function of the position.
Objectives == {"const", "sphere", "wells"}

\* "const": the same score at every point
\* "sphere": sum of x[i]^2
\* "wells": sum of | |x[i]| - 1 |  (two minima per coordinate, at -1 and 1)
F(id, x) ==
    CASE id = "const"  -> Rat(1)
      [] id = "sphere" -> LET sq == [i \in DOMAIN x |-> RMul(x[i], x[i])]
                          IN  RSum(sq, 0, Length(x) - 1)
      [] id = "wells"  -> LET w == [i \in DOMAIN x |-> RAbs(RSub(RAbs(x[i]), Rat(1)))]
                          IN  RSum(w, 0, Length(x) - 1)

\* ------------------------------------------------------------ the optimizer
\* A threshold is a decimal <<m, e>>, the number m * 10^-e (m >= 0, e >= 0),
\* so that the literal 10E-15 of the source is written as it stands.
\* l * 10^e > r, for r >= 0, without forming 10^e
RECURSIVE ScaledAbove(_, _, _)
ScaledAbove(l, r, e) ==
    IF l > r THEN TRUE
    ELSE IF e = 0 \/ l <= 0 THEN FALSE
    ELSE ScaledAbove(l * 10, r, e - 1)

\* a < b - t for scores a, b and a threshold t, that is b - a > t
LtMinus(a, b, t) ==
    LET diff == RSub(b, a)
    IN  ScaledAbove(diff[1], t[1] * diff[2], t[2])

\* ConvTreshold: 10E-15
DefaultConvTreshold == <<10, 15>>

MakeNelderMeadOptimizer(f, dim) ==
    [ f            |-> f,
      ConvTreshold |-> DefaultConvTreshold,
      convCount    |-> 0,
      ConvLimit    |-> 12,
      Alpha        |-> Rat(1),
      Gamma        |-> Rat(2),
      Rho          |-> <<1, 2>>,
      Sigma        |-> <<1, 2>>,
      dim          |-> dim,
      best         |-> Zero,
      bestPrev     |-> Zero ]

VertexScore(x, s) == [X |-> x, Score |-> s]

MakeSimplexValues(start, step) ==
    LET dim == Length(start)
    IN  [i \in 0 .. dim |->
            IF i = 0
            THEN VertexScore(start, Zero)
            ELSE VertexScore([start EXCEPT ![i - 1] = RAdd(@, step)], Zero)]

CentroidAll(spx) ==
    LET n == Length(spx)
    IN  [j \in 0 .. n - 2 |->
            LET col == [i \in 0 .. n - 1 |-> spx[i].X[j]]
            IN  RDivInt(RSum(col, 0, n - 1), n)]

Centroid(spx) ==
    LET n == Length(spx) - 1
    IN  [j \in 0 .. n - 1 |->
            LET col == [i \in 0 .. n - 1 |-> spx[i].X[j]]
            IN  RDivInt(RSum(col, 0, n - 1), n)]

\* sort.Slice on at most 6 elements is an insertion sort, which keeps the
\* order of vertices with equal scores: vertex i moves to the number of
\* vertices that precede it in the sorted order.
Rank(spx, i) ==
    Cardinality({k \in DOMAIN spx :
        \/ RLt(spx[k].Score, spx[i].Score)
        \/ (k < i /\ ~RLt(spx[i].Score, spx[k].Score))})

Sort(spx) ==
    [p \in DOMAIN spx |-> spx[CHOOSE i \in DOMAIN spx : Rank(spx, i) = p]]

SetOffByOne(spx, i, x, s) ==
    IF 0 <= i - 1 /\ i - 1 < Length(spx)
    THEN [spx EXCEPT ![i - 1] = VertexScore(x, s)]
    ELSE spx

Set(spx, i, x, s) ==
    IF 0 <= i /\ i < Length(spx)
    THEN [spx EXCEPT ![i] = VertexScore(x, s)]
    ELSE spx

CheckTerminateStrict(nmo) ==
    LET n1 == IF LtMinus(nmo.best, nmo.bestPrev, nmo.ConvTreshold)
              THEN [nmo EXCEPT !.convCount = 0, !.bestPrev = nmo.best]
              ELSE [nmo EXCEPT !.convCount = @ + 1]
    IN  [nmo |-> n1, term |-> n1.convCount > n1.ConvLimit]

CheckTerminateNoReset(nmo) ==
    LET n1 == IF LtMinus(nmo.best, nmo.bestPrev, nmo.ConvTreshold)
              THEN [nmo EXCEPT !.bestPrev = nmo.best]
              ELSE [nmo EXCEPT !.convCount = @ + 1]
    IN  [nmo |-> n1, term |-> n1.convCount >= n1.ConvLimit]

\* the optimizer after the check, and the value returned
CheckTerminate(nmo) ==
    LET n1 == IF LtMinus(nmo.best, nmo.bestPrev, nmo.ConvTreshold)
              THEN [nmo EXCEPT !.convCount = 0, !.bestPrev = nmo.best]
              ELSE [nmo EXCEPT !.convCount = @ + 1]
    IN  [nmo |-> n1, term |-> n1.convCount >= n1.ConvLimit]

MakePoint(factor, x0, xm) ==
    [i \in DOMAIN x0 |-> RAdd(x0[i], RMul(factor, RSub(xm[i], x0[i])))]

\* lines 221-223 of Optimize: the scores of vertices 0 .. dim
Evaluate(nmo, spx) ==
    [i \in DOMAIN spx |->
        IF i <= nmo.dim THEN [spx[i] EXCEPT !.Score = F(nmo.f, spx[i].X)] ELSE spx[i]]

\* line 224 of Optimize
SeedBestPrevAndReset(nmo, spx) == [nmo EXCEPT !.bestPrev = spx[0].Score, !.convCount = 0]

SeedBestPrev(nmo, spx) == [nmo EXCEPT !.bestPrev = spx[0].Score]

StageNoExpand(nmo, spx, rscore) ==
    IF RLe(spx[0].Score, rscore) /\ RLt(rscore, spx[nmo.dim - 1].Score)
    THEN "reflect"
    ELSE "contract"

\* the switch of lines 244-255, once rscore is known
Stage(nmo, spx, rscore) ==
    IF RLe(spx[0].Score, rscore) /\ RLt(rscore, spx[nmo.dim - 1].Score)
    THEN "reflect"
    ELSE IF RLt(rscore, spx[0].Score) THEN "expand" ELSE "contract"

\* lines 261-264: the loop from vertex i on
RECURSIVE ShrinkFrom(_, _, _)
ShrinkFrom(nmo, spx, i) ==
    IF i > nmo.dim
    THEN spx
    ELSE LET x == MakePoint(nmo.Sigma, spx[0].X, spx[i].X)
         IN  ShrinkFrom(nmo, Set(spx, i, x, F(nmo.f, spx[i].X)), i + 1)

Shrink(nmo, spx) == ShrinkFrom(nmo, spx, 1)

ResultBest(spx, converged) ==
    LET b == CHOOSE i \in DOMAIN spx : \A k \in DOMAIN spx : RLe(spx[i].Score, spx[k].Score)
    IN  [x |-> spx[b].X, score |-> spx[b].Score, converged |-> converged]

\* the values returned by lines 234 and 269
Result(spx, converged) ==
    [x |-> spx[0].X, score |-> spx[0].Score, converged |-> converged]

\* ------------------------------------------------------------ state
VARIABLES
    nmo,        \* the NelderMeadOptimizer instance
    pc,         \* position: "new", "idle", "loop", "stage", "done", "panic"
    max_iter, start, step,   \* the arguments of the running Optimize call
    spx,        \* the simplex of the running call
    iters,      \* the loop counter of Optimize
    loc,        \* the locals of the last iteration: xctr, xr, rscore, the stage taken
    ret,        \* the values returned by the last call
    evals,      \* calls of nmo.f made by the running call
    calls,      \* Optimize calls started on the instance
    hist,       \* convCount when the running call was entered
    cspx, cxctr, cpc   \* Centroid applied on its own (SpecCentroid)

vars == <<nmo, pc, max_iter, start, step, spx, iters, loc, ret, evals, calls, hist,
          cspx, cxctr, cpc>>

Empty == [i \in {} |-> Zero]

NoLoc == [xctr |-> Empty, xr |-> Empty, rscore |-> Zero, stage |-> "none"]

NoRet == [x |-> Empty, score |-> Zero, converged |-> FALSE]

\* ------------------------------------------------------------ inputs
Dims == {1, 2}
StartVals == {-1, 3}
Steps == {0, 1, 2}
ConvLimits == {1, 2}
ConvTresholds == {DefaultConvTreshold, <<1, 0>>}

Vectors(n, vals) == [0 .. n - 1 -> {Rat(v) : v \in vals}]

\* ------------------------------------------------------------ actions
CallVars == <<max_iter, start, step, spx, iters, loc, ret, evals, calls, hist>>
CentroidVars == <<cspx, cxctr, cpc>>

InitWith(dims) ==
    /\ \E f \in Objectives, d \in dims : nmo = MakeNelderMeadOptimizer(f, d)
    /\ pc = "new"
    /\ max_iter = 0 /\ start = Empty /\ step = Zero
    /\ spx = Empty /\ iters = 0 /\ loc = NoLoc /\ ret = NoRet
    /\ evals = 0 /\ calls = 0
    /\ hist = [convCount |-> 0]
    /\ cspx = Empty /\ cxctr = Empty /\ cpc = "off"

Init == InitWith(Dims)

\* the caller overrides the public fields before the first run
Configure ==
    /\ pc = "new"
    /\ \E l \in ConvLimits, t \in ConvTresholds :
          nmo' = [nmo EXCEPT !.ConvLimit = l, !.ConvTreshold = t]
    /\ pc' = "idle"
    /\ UNCHANGED <<CallVars, CentroidVars>>

\* Optimize, lines 218-224, with a start vector of one of the lengths lens,
\* on an instance that ran fewer than maxcalls calls
OptimizeEnter(lens, maxcalls) ==
    /\ pc \in {"new", "idle", "done"}
    /\ calls < maxcalls
    /\ \E mi \in -1 .. MaxIter, n \in lens, sp \in Steps :
       \E st \in Vectors(n, StartVals) :
          LET s0 == MakeSimplexValues(st, Rat(sp))
              s1 == Evaluate(nmo, s0)
          IN  /\ nmo.dim < Length(s0)
              /\ max_iter' = mi /\ start' = st /\ step' = Rat(sp)
              /\ spx' = s1
              /\ evals' = Cardinality({i \in DOMAIN s0 : i <= nmo.dim})
              /\ nmo' = SeedBestPrev(nmo, s1)
    /\ hist' = [convCount |-> nmo.convCount]
    /\ iters' = 0 /\ loc' = NoLoc /\ ret' = NoRet
    /\ calls' = calls + 1
    /\ pc' = "loop"
    /\ UNCHANGED CentroidVars

\* a call that keeps the contract len(start) == dim
OptimizeCall == OptimizeEnter({nmo.dim}, MaxCalls)

\* lines 229-235 when CheckTerminate returns true
IterConverged ==
    /\ pc = "loop" /\ iters < max_iter
    /\ LET s1 == Sort(spx)
           ct == CheckTerminate([nmo EXCEPT !.best = s1[0].Score])
       IN  /\ ct.term
           /\ spx' = s1
           /\ nmo' = ct.nmo
           /\ ret' = Result(s1, TRUE)
    /\ pc' = "done"
    /\ UNCHANGED <<max_iter, start, step, iters, loc, evals, calls, hist, CentroidVars>>

\* lines 229-235 when CheckTerminate returns false
IterContinue ==
    /\ pc = "loop" /\ iters < max_iter
    /\ LET s1 == Sort(spx)
           ct == CheckTerminate([nmo EXCEPT !.best = s1[0].Score])
       IN  /\ ~ct.term
           /\ spx' = s1
           /\ nmo' = ct.nmo
    /\ pc' = "stage"
    /\ UNCHANGED <<max_iter, start, step, iters, loc, ret, evals, calls, hist, CentroidVars>>

\* lines 238-242: centroid, reflected point and its score
Xctr == Centroid(spx)
Xr == MakePoint(RNeg(nmo.Alpha), Xctr, spx[nmo.dim].X)
Rscore == F(nmo.f, Xr)

\* every index of lines 241-245 is in range
StageInRange ==
    /\ 0 <= nmo.dim /\ nmo.dim < Length(spx)
    /\ RLe(spx[0].Score, Rscore) => 0 <= nmo.dim - 1

EndIteration(stage, s1, n) ==
    /\ spx' = s1
    /\ loc' = [xctr |-> Xctr, xr |-> Xr, rscore |-> Rscore, stage |-> stage]
    /\ evals' = evals + n
    /\ iters' = iters + 1
    /\ pc' = "loop"
    /\ UNCHANGED <<nmo, max_iter, start, step, ret, calls, hist, CentroidVars>>

\* lines 245-246
Reflect ==
    /\ pc = "stage" /\ StageInRange
    /\ Stage(nmo, spx, Rscore) = "reflect"
    /\ EndIteration("reflect", Set(spx, nmo.dim, Xr, Rscore), 1)

\* lines 247-254
Expand ==
    /\ pc = "stage" /\ StageInRange
    /\ Stage(nmo, spx, Rscore) = "expand"
    /\ LET xe == MakePoint(nmo.Gamma, Xctr, Xr)
           escore == F(nmo.f, xe)
       IN  IF RLt(escore, Rscore)
           THEN EndIteration("expand", Set(spx, nmo.dim, xe, escore), 2)
           ELSE EndIteration("expand", Set(spx, nmo.dim, Xr, Rscore), 2)

Xc == MakePoint(nmo.Rho, Xctr, spx[nmo.dim].X)
Cscore == F(nmo.f, Xc)

\* lines 255-259
Contract ==
    /\ pc = "stage" /\ StageInRange
    /\ Stage(nmo, spx, Rscore) = "contract"
    /\ RLt(Cscore, spx[nmo.dim].Score)
    /\ EndIteration("contract", Set(spx, nmo.dim, Xc, Cscore), 2)

\* lines 255-257 and 260-265
ShrinkStep ==
    /\ pc = "stage" /\ StageInRange
    /\ Stage(nmo, spx, Rscore) = "contract"
    /\ ~RLt(Cscore, spx[nmo.dim].Score)
    /\ EndIteration("shrink", Shrink(nmo, spx), 2 + nmo.dim)

\* line 269
Exhausted ==
    /\ pc = "loop" /\ iters >= max_iter
    /\ ret' = Result(spx, FALSE)
    /\ pc' = "done"
    /\ UNCHANGED <<nmo, max_iter, start, step, spx, iters, loc, evals, calls, hist,
                   CentroidVars>>

Next ==
    \/ Configure
    \/ OptimizeCall
    \/ IterConverged
    \/ IterContinue
    \/ Reflect
    \/ Expand
    \/ Contract
    \/ ShrinkStep
    \/ Exhausted

Spec == Init /\ [][Next]_vars

\* ------------------------------------------------------------ calls outside the contract
\* SpecCfg: one call per instance, with dim and len(start) that need not
\* agree; an index out of range ends the call in a panic.
CfgDims == {-1, 0, 1, 2}
CfgLens == {0, 1, 2}

InitCfg == InitWith(CfgDims)

OptimizeAny == OptimizeEnter(CfgLens, 1)

\* lines 220-222 with len(start) < dim: spx[i] at i = len(spx) is out of range
OptimizePanic ==
    /\ pc \in {"new", "idle"}
    /\ calls < 1
    /\ \E mi \in -1 .. MaxIter, n \in CfgLens, sp \in Steps :
       \E st \in Vectors(n, StartVals) :
          LET s0 == MakeSimplexValues(st, Rat(sp))
          IN  /\ nmo.dim >= Length(s0)
              /\ max_iter' = mi /\ start' = st /\ step' = Rat(sp)
              /\ spx' = Evaluate(nmo, s0)
              /\ evals' = Length(s0)
    /\ hist' = [convCount |-> nmo.convCount]
    /\ iters' = 0 /\ loc' = NoLoc /\ ret' = NoRet
    /\ calls' = calls + 1
    /\ pc' = "panic"
    /\ UNCHANGED <<nmo, CentroidVars>>

\* lines 241-245 with dim <= 0: spx[dim] or spx[dim-1] is out of range
StagePanic ==
    /\ pc = "stage" /\ ~StageInRange
    /\ evals' = IF 0 <= nmo.dim THEN evals + 1 ELSE evals
    /\ pc' = "panic"
    /\ UNCHANGED <<nmo, max_iter, start, step, spx, iters, loc, ret, calls, hist,
                   CentroidVars>>

NextCfg ==
    \/ Configure
    \/ OptimizeAny
    \/ OptimizePanic
    \/ IterConverged
    \/ IterContinue
    \/ Reflect
    \/ Expand
    \/ Contract
    \/ ShrinkStep
    \/ StagePanic
    \/ Exhausted

SpecCfg == InitCfg /\ [][NextCfg]_vars

\* ------------------------------------------------------------ Centroid on its own
\* SpecCentroid: a simplex is built, one vertex may be overwritten, and the
\* centroid is taken (src/unnamed/part_000, TestSimplexValues_Centroid).
CDims == {1, 2, 3}
CVals == {0, 1, 3}
CSteps == {-1, 3}
CScores == {0, 2}

InitCentroid ==
    /\ nmo = MakeNelderMeadOptimizer("const", 1)
    /\ pc = "new"
    /\ max_iter = 0 /\ start = Empty /\ step = Zero
    /\ spx = Empty /\ iters = 0 /\ loc = NoLoc /\ ret = NoRet
    /\ evals = 0 /\ calls = 0
    /\ hist = [convCount |-> 0]
    /\ cspx = Empty /\ cxctr = Empty /\ cpc = "start"

MainVars == <<nmo, pc, max_iter, start, step, spx, iters, loc, ret, evals, calls, hist>>

CBuild ==
    /\ cpc = "start"
    /\ \E n \in CDims, sp \in CSteps :
       \E st \in Vectors(n, CVals) : cspx' = MakeSimplexValues(st, Rat(sp))
    /\ cpc' = "built"
    /\ UNCHANGED <<cxctr, MainVars>>

CSet ==
    /\ cpc = "built"
    /\ \E i \in DOMAIN cspx, sc \in CScores :
       \E x \in Vectors(Length(cspx) - 1, CVals) : cspx' = Set(cspx, i, x, Rat(sc))
    /\ cpc' = "set"
    /\ UNCHANGED <<cxctr, MainVars>>

CCentroid ==
    /\ cpc \in {"built", "set"}
    /\ cxctr' = Centroid(cspx)
    /\ cpc' = "centroid"
    /\ UNCHANGED <<cspx, MainVars>>

NextCentroid ==
    \/ CBuild
    \/ CSet
    \/ CCentroid

SpecCentroid == InitCentroid /\ [][NextCentroid]_vars

\* ------------------------------------------------------------ claims
\* C1: at the end of every iteration every vertex of the simplex carries the
\* score of the objective at its own position, the vertices moved by a
\* shrink included.
C1_VertexInvariant ==
    (pc = "loop" /\ iters >= 1) =>
        \A i \in DOMAIN spx : spx[i].Score = F(nmo.f, spx[i].X)

\* C2: for max_iter >= 1 the returned score is at most the score of every
\* vertex the simplex holds at the return, and the returned position is the
\* position of that vertex.
C2_ReturnsBest ==
    (pc = "done" /\ max_iter >= 1) =>
        /\ \A i \in DOMAIN spx : RLe(ret.score, spx[i].Score)
        /\ \E i \in DOMAIN spx : ret.x = spx[i].X /\ ret.score = spx[i].Score

\* C3: Optimize(0, start, step) runs no iteration: no sort (the simplex is
\* the one built from start and step, in construction order), no
\* convergence check (the stall counter is the one of the entry), no
\* transformation (the objective was called on the dim+1 vertices only),
\* and it returns (start, f(start), false).
C3_ZeroIterations ==
    (pc = "done" /\ max_iter = 0) =>
        /\ ret.x = start
        /\ ret.score = F(nmo.f, start)
        /\ ret.converged = FALSE
        /\ iters = 0
        /\ loc = NoLoc
        /\ evals = nmo.dim + 1
        /\ nmo.convCount = hist.convCount
        /\ DOMAIN spx = 0 .. nmo.dim
        /\ \A i \in DOMAIN spx :
              /\ spx[i].X = MakeSimplexValues(start, step)[i].X
              /\ spx[i].Score = F(nmo.f, spx[i].X)

\* C3 witness: a zero-iteration call has returned the start point although
\* another vertex of the initial simplex has a lower score.
C3_Witness ==
    /\ pc = "done" /\ max_iter = 0
    /\ ret.x = start
    /\ \E i \in DOMAIN spx : RLt(spx[i].Score, ret.score)

\* C4: with a constant objective, on a fresh optimizer with ConvLimit >= 1,
\* the stall counter grows by one at every check, so that Optimize returns
\* converged=true in iteration number ConvLimit when max_iter >= ConvLimit,
\* and converged=false when max_iter < ConvLimit.
C4_Degenerate ==
    (nmo.f = "const" /\ calls = 1 /\ nmo.ConvLimit >= 1) =>
        /\ pc = "loop"  => nmo.convCount = iters
        /\ pc = "stage" => nmo.convCount = iters + 1
        /\ pc = "done"  =>
              IF max_iter >= nmo.ConvLimit
              THEN /\ ret.converged
                   /\ iters + 1 = nmo.ConvLimit
                   /\ nmo.convCount = nmo.ConvLimit
              ELSE /\ ~ret.converged
                   /\ nmo.convCount < nmo.ConvLimit

\* C4 witness: a constant objective converged in the second iteration.
C4_Witness ==
    /\ nmo.f = "const" /\ calls = 1 /\ pc = "done"
    /\ nmo.ConvLimit = 2 /\ ret.converged /\ iters = 1

\* a call was entered with this step (from the caller or after a return)
IsEntry == pc \in {"new", "idle", "done"} /\ pc' = "loop"

\* C6 as stated: a second call starts with the stall counter and the
\* previous-best that the previous call left.
C6_NothingReinitialised ==
    [][(IsEntry /\ calls >= 1) =>
          /\ nmo'.convCount = nmo.convCount
          /\ nmo'.bestPrev = nmo.bestPrev]_vars

\* C6 amended: a call reaches its first convergence check with the stall
\* counter that the previous call left, which is at least ConvLimit after a
\* call that returned converged=true, and with previous-best set to
\* f(start) by the entry.
C6_CounterKeptBestPrevSeeded ==
    /\ (pc = "loop" /\ iters = 0) =>
          /\ nmo.convCount = hist.convCount
          /\ nmo.bestPrev = F(nmo.f, start)
    /\ (pc = "done" /\ ret.converged) => nmo.convCount >= nmo.ConvLimit
    /\ (pc = "done" /\ max_iter <= 0) => nmo.convCount = hist.convCount

\* C6 witness: the second call on an instance is about to make its first
\* check, with the stall counter at ConvLimit from the first call and a
\* previous-best that is the score of its own start point.
C6_Witness ==
    /\ calls = 2 /\ pc = "loop" /\ iters = 0
    /\ nmo.ConvLimit >= 1
    /\ nmo.convCount = nmo.ConvLimit
    /\ nmo.bestPrev = F(nmo.f, start)
    /\ nmo.bestPrev # nmo.best

\* the step is the sort and convergence check of an iteration
IsCheck == pc = "loop" /\ (pc' = "stage" \/ (pc' = "done" /\ ret'.converged))

\* the step is the return of line 269
IsExhausted == pc = "loop" /\ pc' = "done" /\ ~ret'.converged

\* C8: the check right after the sort resets the stall counter and takes
\* best as previous-best when best < previousBest - ConvTreshold, and
\* otherwise adds one to the stall counter; Optimize returns vertex 0 with
\* converged=true in that iteration, without a further call of the
\* objective, exactly when the counter has reached ConvLimit, and returns
\* converged=false only after max_iter iterations without that.
C8_ConvergenceCheck ==
    [][/\ IsCheck =>
            LET best == spx'[0].Score
                improved == LtMinus(best, nmo.bestPrev, nmo.ConvTreshold)
            IN  /\ iters < max_iter
                /\ \A i \in DOMAIN spx' : RLe(best, spx'[i].Score)
                /\ nmo'.best = best
                /\ improved  => nmo'.convCount = 0 /\ nmo'.bestPrev = best
                /\ ~improved => /\ nmo'.convCount = nmo.convCount + 1
                                /\ nmo'.bestPrev = nmo.bestPrev
                /\ (pc' = "done") <=> (nmo'.convCount >= nmo.ConvLimit)
                /\ pc' = "done" =>
                      ret' = [x |-> spx'[0].X, score |-> best, converged |-> TRUE]
                /\ evals' = evals /\ iters' = iters
       /\ IsExhausted =>
            /\ iters >= max_iter
            /\ iters = (IF max_iter < 0 THEN 0 ELSE max_iter)
            /\ nmo' = nmo]_vars

\* C8 witness: a call on a fresh optimizer returned converged=true after an
\* earlier check of the same call had reset the counter on an improvement.
C8_Witness ==
    /\ pc = "done" /\ ret.converged /\ calls = 1 /\ iters >= 1
    /\ RLt(nmo.bestPrev, F(nmo.f, start))
    /\ nmo.convCount = nmo.ConvLimit

\* the step is the transformation of an iteration
IsStage == pc = "stage" /\ pc' = "loop"

\* C9: an iteration that does not return applies exactly one of reflect,
\* expand, contract, shrink, chosen from rscore and the scores of the best,
\* second-worst and worst vertex; reflect, expand and contract overwrite
\* vertex d only, shrink overwrites vertices 1..d only, vertex 0 is never
\* overwritten and the simplex keeps d+1 vertices.
C9_SingleBranch ==
    [][IsStage =>
        LET d == nmo.dim
            b == spx[0].Score
            sw == spx[d - 1].Score
            w == spx[d].Score
            r == loc'.rscore
            xc == MakePoint(nmo.Rho, loc'.xctr, spx[d].X)
            xe == MakePoint(nmo.Gamma, loc'.xctr, loc'.xr)
            c == F(nmo.f, xc)
            st == loc'.stage
        IN  /\ loc'.xr = MakePoint(RNeg(nmo.Alpha), Centroid(spx), spx[d].X)
            /\ r = F(nmo.f, loc'.xr)
            /\ st \in {"reflect", "expand", "contract", "shrink"}
            /\ (st = "reflect") <=> (RLe(b, r) /\ RLt(r, sw))
            /\ (st = "expand") <=> RLt(r, b)
            /\ (st = "contract") <=> (RLe(b, r) /\ ~RLt(r, sw) /\ RLt(c, w))
            /\ (st = "shrink") <=> (RLe(b, r) /\ ~RLt(r, sw) /\ ~RLt(c, w))
            /\ st = "reflect" => spx'[d] = VertexScore(loc'.xr, r)
            /\ st = "expand" =>
                  spx'[d] \in {VertexScore(loc'.xr, r), VertexScore(xe, F(nmo.f, xe))}
            /\ st = "contract" => spx'[d] = VertexScore(xc, c)
            /\ st # "shrink" => \A i \in 0 .. d - 1 : spx'[i] = spx[i]
            /\ st = "shrink" =>
                  \A i \in 1 .. d :
                      spx'[i].X = MakePoint(nmo.Sigma, spx[0].X, spx[i].X)
            /\ spx'[0] = spx[0]
            /\ DOMAIN spx' = 0 .. d
            /\ iters' = iters + 1]_vars

\* C9 witness: an iteration on a simplex of three vertices, with an
\* objective that is not constant, has ended in a shrink.
C9_Witness ==
    /\ pc = "loop" /\ loc.stage = "shrink" /\ nmo.dim = 2
    /\ nmo.f # "const"

\* C10: within one call the score of vertex 0 right after the sort never
\* increases from one iteration to the next (nmo.best holds that score of
\* the iteration before).
C10_BestNeverIncreases ==
    [][(IsCheck /\ iters >= 1) =>
          /\ RLe(spx'[0].Score, nmo.best)
          /\ nmo'.best = spx'[0].Score
          /\ spx[0].Score = nmo.best]_vars

\* C10 witness: the third sort of a call, after an expansion, found a best
\* score below the one of the check before.
C10_Witness ==
    /\ pc = "stage" /\ iters = 2
    /\ nmo.convCount = 0
    /\ RLt(nmo.best, F(nmo.f, start))
    /\ loc.stage = "expand"

\* a call was made that breaks a precondition of Optimize
ConfigError ==
    /\ calls >= 1
    /\ \/ Length(start) # nmo.dim
       \/ nmo.dim <= 0
       \/ step = Zero
       \/ max_iter < 0

\* C5: a configuration error is found before the simplex is built and before
\* the objective is called, and the call yields neither a result nor a
\* partial run.  Optimize (lines 218-224) holds no check: it builds the
\* simplex and calls the objective at once.
C5_RejectedBeforeConstruction ==
    ConfigError => (spx = Empty /\ evals = 0 /\ pc \notin {"loop", "stage", "done"})

\* the vertices 0 .. d-1 of a simplex, with vertex d and all scores replaced
Masked(s) ==
    LET d == Length(s) - 1
    IN  [i \in DOMAIN s |->
            IF i = d THEN VertexScore(s[0].X, Zero) ELSE VertexScore(s[i].X, Zero)]

\* C7: Centroid returns a vector of length d whose j-th coordinate is the
\* mean of the j-th coordinates of vertices 0 .. d-1, whatever vertex d and
\* the scores are; for start = [0,0,0] and step = 3 it is [1,1,0].
C7_Centroid ==
    cpc = "centroid" =>
        LET d == Length(cspx) - 1
        IN  /\ DOMAIN cxctr = 0 .. d - 1
            /\ \A j \in 0 .. d - 1 :
                  LET col == [i \in 0 .. d - 1 |-> cspx[i].X[j]]
                  IN  RMul(cxctr[j], Rat(d)) = RSum(col, 0, d - 1)
            /\ cxctr = Centroid(Masked(cspx))
            /\ cspx = MakeSimplexValues([j \in 0 .. 2 |-> Zero], Rat(3)) =>
                  cxctr = (0 :> Rat(1) @@ 1 :> Rat(1) @@ 2 :> Zero)

\* C7 witness: the centroid of the simplex of the test, [1,1,0].
C7_Witness ==
    /\ cpc = "centroid"
    /\ cspx = MakeSimplexValues([j \in 0 .. 2 |-> Zero], Rat(3))
    /\ cxctr = (0 :> Rat(1) @@ 1 :> Rat(1) @@ 2 :> Zero)

====
